---- MODULE Spec2Model ----
(***************************************************************************)
(* Guitar tuner (EPICS RPVI): the tuning evaluator of string_detection.c   *)
(* and the feedback sequencer of audio_sequencer.c.                        *)
(*                                                                         *)
(* Numbers.  The C code works on double.  Here a frequency is an integer   *)
(* number of 1/100 Hz (every table entry of the source has two decimals),  *)
(* a cents offset is an integer number of 1/1000 cent, and a uint32_t      *)
(* millisecond count is a record [hi, lo] of two 16-bit halves, so that    *)
(* the 32-bit wrap of the source is kept exactly.                          *)
(***************************************************************************)
EXTENDS Integers, Naturals, Sequences, FiniteSets, TLC

(***************************************************************************)
(* Bounds of the model.                                                    *)
(***************************************************************************)
\* caller-owned TuningResult objects that exist at the same time
NumSlots == 2

Slots == 1..NumSlots

Abs(x) == IF x < 0 THEN 0 - x ELSE x

\* string_detection.h: struct TuningResult.  Frequencies are in 1/100 Hz and
\* cents in 1/1000 cent; direction and note_name point to string constants.
TuningResult ==
    [detected_string : Int, target_string : Int, cents_offset : Int,
     direction : STRING, detected_frequency : Int, target_frequency : Int,
     note_name : STRING, octave : Int]

\* the fields of a TuningResult, in the order of the struct
TuningResultFields ==
    <<"detected_string", "target_string", "cents_offset", "direction",
      "detected_frequency", "target_frequency", "note_name", "octave">>

\* A recorded call of a pure function: its name, its arguments and what it
\* returned.  NoCall: no call has been made.
NoCall == [fn |-> "none", args |-> << >>, ret |-> << >>]

(***************************************************************************)
(* hardware_interface.c: the statics of the button input.  The time fields *)
(* (last_change_time_ms, press_time_ms, timestamp_ms, press_duration_ms)   *)
(* are left out: no branch that confirms or delivers an event reads them.  *)
(***************************************************************************)
\* string buttons the user operates; the other buttons stay released
NumOperatedButtons == 2

DEBOUNCE_COUNT == 2

BUTTON_RELEASED == 0

BUTTON_PRESSED == 1

\* button_states[], pending_event, pending_event_ready and
\* button_event_count as their initialisers leave them
HardwareInterfaceStatics ==
    [button_states |->
         [b \in 1..NumOperatedButtons |->
             [raw_state |-> 0, debounced_state |-> BUTTON_RELEASED, press_count |-> 0]],
     pending_event |-> [button_id |-> 0, state |-> BUTTON_RELEASED],
     pending_event_ready |-> FALSE,
     button_event_count |-> 0]

\* History of the button calls: any_change is what the last button_poll
\* returned, event what the last button_get_event returned (the empty tuple
\* for NULL, else the tuple of the event), changed the debounced state
\* changes so far and returned the events button_get_event has returned.
NoButtonCalls ==
    [any_change |-> 0, event |-> << >>, changed |-> << >>, returned |-> << >>]

\* One button_poll call on the statics hw with the pin levels raw (1: the
\* pin reads LOW, the button is down).  scan[k] holds the statics after the
\* loop has handled the buttons 1 .. k, and the changes it has confirmed.
button_poll(hw, raw) ==
    LET scan[k \in 0..NumOperatedButtons] ==
            IF k = 0 THEN [statics |-> hw, changes |-> << >>]
            ELSE LET before == scan[k - 1]
                     button == before.statics.button_states[k]
                     count == IF raw[k] = button.debounced_state THEN 0
                              ELSE button.press_count + 1
                     confirmed == raw[k] # button.debounced_state
                                      /\ count >= DEBOUNCE_COUNT
                     generated == [button_id |-> k,
                                   state |-> IF raw[k] # 0 THEN BUTTON_PRESSED
                                             ELSE BUTTON_RELEASED]
                 IN  [statics |->
                          [button_states |->
                               [before.statics.button_states EXCEPT ![k] =
                                   [raw_state |-> raw[k],
                                    debounced_state |->
                                        IF confirmed THEN raw[k]
                                        ELSE button.debounced_state,
                                    press_count |-> count]],
                           pending_event |->
                               IF confirmed THEN generated
                               ELSE before.statics.pending_event,
                           pending_event_ready |->
                               confirmed \/ before.statics.pending_event_ready,
                           button_event_count |->
                               IF confirmed
                               THEN before.statics.button_event_count + 1
                               ELSE before.statics.button_event_count],
                      changes |-> IF confirmed THEN Append(before.changes, generated)
                                  ELSE before.changes]
        after == scan[NumOperatedButtons]
    IN  [statics |-> after.statics, changes |-> after.changes]

(***************************************************************************)
(* string_detection.c exists in three shipped versions.                    *)
(***************************************************************************)
Versions == {"src_rounded", "src", "unit_testing"}

\* string_detection.h: GUITAR_STRING_1_FREQ .. GUITAR_STRING_6_FREQ
string_frequencies == <<32963, 24694, 19600, 14683, 11000, 8241>>

guitar_notes_src_rounded ==
    << <<8200, "E", 6, 2>>, <<8700, "F", 6, 2>>, <<9300, "F#", 6, 2>>,
       <<9800, "G", 6, 2>>, <<10400, "G#", 6, 2>>, <<11000, "A", 5, 2>>,
       <<11600, "A#", 5, 2>>, <<12400, "B", 5, 2>>, <<13100, "C", 5, 3>>,
       <<13900, "C#", 5, 3>>, <<14700, "D", 4, 3>>, <<15600, "D#", 4, 3>>,
       <<16500, "E", 4, 3>>, <<17500, "F", 4, 3>>, <<18500, "F#", 4, 3>>,
       <<19600, "G", 3, 3>>, <<20800, "G#", 3, 3>>, <<22000, "A", 3, 3>>,
       <<23300, "A#", 3, 3>>, <<24700, "B", 2, 3>>, <<26200, "C", 2, 4>>,
       <<27800, "C#", 2, 4>>, <<29400, "D", 2, 4>>, <<31100, "D#", 2, 4>>,
       <<33000, "E", 1, 4>>, <<34900, "F", 1, 4>>, <<37000, "F#", 1, 4>>,
       <<39200, "G", 1, 4>>, <<41500, "G#", 1, 4>>, <<44000, "A", 1, 4>>,
       <<46600, "A#", 1, 4>>, <<49400, "B", 1, 4>>, <<52300, "C", 1, 5>> >>

guitar_notes_src ==
    << <<8241, "E", 6, 2>>, <<8731, "F", 6, 2>>, <<9250, "F#", 6, 2>>,
       <<9800, "G", 6, 2>>, <<10383, "G#", 6, 2>>, <<11000, "A", 5, 2>>,
       <<11654, "A#", 5, 2>>, <<12347, "B", 5, 2>>, <<13081, "C", 5, 3>>,
       <<13859, "C#", 5, 3>>, <<14683, "D", 4, 3>>, <<15556, "D#", 4, 3>>,
       <<16481, "E", 4, 3>>, <<17461, "F", 4, 3>>, <<18500, "F#", 4, 3>>,
       <<19600, "G", 3, 3>>, <<20765, "G#", 3, 3>>, <<22000, "A", 3, 3>>,
       <<23308, "A#", 3, 3>>, <<24694, "B", 2, 3>>, <<26163, "C", 2, 4>>,
       <<27718, "C#", 2, 4>>, <<29366, "D", 2, 4>>, <<31113, "D#", 2, 4>>,
       <<32963, "E", 1, 4>>, <<34923, "F", 1, 4>>, <<36999, "F#", 1, 4>>,
       <<39200, "G", 1, 4>>, <<41530, "G#", 1, 4>>, <<44000, "A", 1, 4>>,
       <<46616, "A#", 1, 4>>, <<49388, "B", 1, 4>>, <<52325, "C", 1, 5>> >>

guitar_notes_unit_testing ==
    << <<8241, "E", 6, 2>>, <<8731, "F", 6, 2>>, <<9250, "F#", 6, 2>>,
       <<9800, "G", 6, 2>>, <<10383, "G#", 6, 2>>, <<8731, "F", 6, 2>>,
       <<9250, "F#", 6, 2>>, <<9800, "G", 6, 2>>, <<10383, "G#", 6, 2>>,
       <<8731, "F", 6, 2>>, <<9250, "F#", 6, 2>>, <<9800, "G", 6, 2>>,
       <<10383, "G#", 6, 2>>, <<11000, "A", 5, 2>>, <<11654, "A#", 5, 2>>,
       <<12347, "B", 5, 2>>, <<13081, "C", 5, 3>>, <<13859, "C#", 5, 3>>,
       <<14683, "D", 4, 3>>, <<15556, "D#", 4, 3>>, <<16481, "E", 4, 3>>,
       <<17461, "F", 4, 3>>, <<18500, "F#", 4, 3>>, <<19600, "G", 3, 3>>,
       <<20765, "G#", 3, 3>>, <<22000, "A", 3, 3>>, <<23308, "A#", 3, 3>>,
       <<24694, "B", 2, 3>>, <<26163, "C", 2, 4>>, <<27718, "C#", 2, 4>>,
       <<29366, "D", 2, 4>>, <<31113, "D#", 2, 4>>, <<32963, "E", 1, 4>>,
       <<34923, "F", 1, 4>>, <<36999, "F#", 1, 4>>, <<39200, "G", 1, 4>>,
       <<41530, "G#", 1, 4>>, <<44000, "A", 1, 4>>, <<46616, "A#", 1, 4>>,
       <<49388, "B", 1, 4>>, <<52325, "C", 1, 5>> >>

guitar_notes(v) ==
    CASE v = "src_rounded" -> guitar_notes_src_rounded
      [] v = "src" -> guitar_notes_src
      [] OTHER -> guitar_notes_unit_testing

NUM_NOTES(v) == Len(guitar_notes(v))

(***************************************************************************)
(* 1200 * log2(detected / target) in 1/1000 cent, for detected >= target   *)
(* > 0.  log2 is computed as e + 2*atanh(z)/ln 2 with 2^e <= ratio <       *)
(* 2^(e+1) and z = (m-1)/(m+1) for the mantissa m, in 20-bit fixed point,  *)
(* every product kept below 2^31.  The result is within 0.03 cent of the   *)
(* double the C code computes, is exactly 0 for a ratio of 1 and is        *)
(* non-decreasing in the ratio.                                            *)
(***************************************************************************)
\* floor(n * 2^k / m) for 0 <= n < m, by long division: after i steps q[i]
\* holds <<quotient bits so far, remainder>>
FracBits(n, m, k) ==
    LET q[i \in 0..k] ==
            IF i = 0 THEN <<0, n>>
            ELSE LET p == q[i - 1]
                 IN  IF 2 * p[2] >= m THEN <<2 * p[1] + 1, 2 * p[2] - m>>
                     ELSE <<2 * p[1], 2 * p[2]>>
    IN  q[k][1]

\* floor(a * b / 2^20) for a, b < 2^20, the product taken in two halves
MulFix(a, b) == (((a \div 1024) * b) \div 1024) + (((a % 1024) * b) \div 1048576)

\* the e in 0..20 with t * 2^e <= d < t * 2^(e+1), for d >= t > 0
Exponent(d, t) == CHOOSE e \in 0..20 : t * (2^e) <= d /\ d \div (2^e) < 2 * t

AtanhSeries(z) ==
    LET z2 == MulFix(z, z)
        z3 == MulFix(z, z2)
        z5 == MulFix(z3, z2)
        z7 == MulFix(z5, z2)
        z9 == MulFix(z7, z2)
        z11 == MulFix(z9, z2)
    IN  z + (z3 \div 3) + (z5 \div 5) + (z7 \div 7) + (z9 \div 9) + (z11 \div 11)

\* 1200 * log2(d / t) in 1/1000 cent for d >= t > 0
Log2Cents(d, t) ==
    LET e == Exponent(d, t)
        m == t * (2^e)
        s == AtanhSeries(FracBits(d - m, d + m, 20))
    IN  1200000 * e + 3 * s + ((s * 3020) \div 10000) + ((s * 67) \div 1000000)

\* calculate_cents_offset without the "<= 0" guard on detected_freq:
\* log2(0) is -infinity, log2 of a negative number is NaN; a very flat value
\* stands for both.
CalculateCentsOffsetUnguarded(detected_freq, target_freq) ==
    IF target_freq <= 0 THEN 0
    ELSE IF detected_freq <= 0 THEN 0 - 2000000000
    ELSE IF detected_freq >= target_freq THEN Log2Cents(detected_freq, target_freq)
    ELSE 0 - Log2Cents(target_freq, detected_freq)

\* calculate_cents_offset with the ratio taken as target / detected
CalculateCentsOffsetInverted(detected_freq, target_freq) ==
    IF target_freq <= 0 \/ detected_freq <= 0 THEN 0
    ELSE IF target_freq >= detected_freq THEN Log2Cents(target_freq, detected_freq)
    ELSE 0 - Log2Cents(detected_freq, target_freq)

calculate_cents_offset(detected_freq, target_freq) ==
    IF target_freq <= 0 \/ detected_freq <= 0 THEN 0
    ELSE IF detected_freq >= target_freq THEN Log2Cents(detected_freq, target_freq)
    ELSE 0 - Log2Cents(target_freq, detected_freq)

\* TUNING_TOLERANCE of get_tuning_direction, in 1/1000 cent
TUNING_TOLERANCE(v) == IF v = "unit_testing" THEN 5000 ELSE 2000

\* get_tuning_direction with "<=" and ">=" where the code has "<" and ">"
GetTuningDirectionInclusive(v, cents) ==
    IF cents <= 0 - TUNING_TOLERANCE(v) THEN "UP"
    ELSE IF cents >= TUNING_TOLERANCE(v) THEN "DOWN"
    ELSE "IN_TUNE"

get_tuning_direction(v, cents) ==
    IF cents < 0 - TUNING_TOLERANCE(v) THEN "UP"
    ELSE IF cents > TUNING_TOLERANCE(v) THEN "DOWN"
    ELSE "IN_TUNE"

\* What an uninitialised double local may hold when it is read: any value.
UninitDoubles == {0, 44000}

\* closest_freq: what *closest_freq holds before the call; it is written only
\* when some string is closer than min_diff = 1000.0 Hz.  scan[i] is the
\* state of the locals after i iterations of the for loop.
find_closest_string(frequency, closest_freq) ==
    LET scan[i \in 0..6] ==
            IF i = 0
            THEN [min_diff |-> 100000, closest_string |-> 0 - 1,
                  closest_freq |-> closest_freq]
            ELSE LET acc == scan[i - 1]
                     diff == Abs(frequency - string_frequencies[i])
                 IN  IF diff < acc.min_diff
                     THEN [min_diff |-> diff, closest_string |-> i,
                           closest_freq |-> string_frequencies[i]]
                     ELSE acc
    IN  [ret |-> scan[6].closest_string, closest_freq |-> scan[6].closest_freq]

\* scan[i] is the state of the locals after i iterations of the for loop
\* (C index i - 1)
find_closest_note(v, frequency, closest_freq, string_num) ==
    LET notes == guitar_notes(v)
        scan[i \in 0..Len(notes)] ==
            IF i = 0
            THEN [min_diff |-> 100000, closest_index |-> 0 - 1,
                  closest_freq |-> closest_freq, string_num |-> string_num]
            ELSE LET acc == scan[i - 1]
                     note == notes[i]
                     diff == Abs(frequency - note[1])
                 IN  IF diff < acc.min_diff
                     THEN [min_diff |-> diff, closest_index |-> i - 1,
                           closest_freq |-> note[1], string_num |-> note[3]]
                     ELSE acc
        r == scan[Len(notes)]
    IN  [ret |-> r.closest_index, closest_freq |-> r.closest_freq,
         string_num |-> r.string_num]

\* The "detected_frequency <= 0.0 => UNKNOWN" branch of analyze_tuning and
\* analyze_tuning_auto: both copies in src/src have it, the copy in
\* "Guitar Unit Testing Files" assigns get_tuning_direction unconditionally.
ResultDirection(v, detected_frequency, cents_offset) ==
    IF v # "unit_testing" /\ detected_frequency <= 0 THEN "UNKNOWN"
    ELSE get_tuning_direction(v, cents_offset)

\* uninit: the indeterminate content of the locals target_freq,
\* closest_note_freq and note_string before they are passed by address
analyze_tuning_auto(v, detected_frequency, uninit) ==
    LET s == find_closest_string(detected_frequency, uninit)
        target_freq == s.closest_freq
        cents == calculate_cents_offset(detected_frequency, target_freq)
        n == find_closest_note(v, detected_frequency, uninit, uninit)
    IN  [detected_string |-> s.ret,
         target_string |-> s.ret,
         cents_offset |-> cents,
         direction |-> ResultDirection(v, detected_frequency, cents),
         detected_frequency |-> detected_frequency,
         target_frequency |-> target_freq,
         note_name |-> IF n.ret >= 0 THEN guitar_notes(v)[n.ret + 1][2] ELSE "?",
         octave |-> IF n.ret >= 0 THEN guitar_notes(v)[n.ret + 1][4] ELSE 0]

analyze_tuning(v, detected_frequency, target_string, uninit) ==
    IF target_string < 1 \/ target_string > 6
    THEN analyze_tuning_auto(v, detected_frequency, uninit)
    ELSE LET target_frequency == string_frequencies[target_string]
             s == find_closest_string(detected_frequency, uninit)
             cents == calculate_cents_offset(detected_frequency, target_frequency)
             n == find_closest_note(v, detected_frequency, uninit, uninit)
         IN  [detected_string |-> s.ret,
              target_string |-> target_string,
              cents_offset |-> cents,
              direction |-> ResultDirection(v, detected_frequency, cents),
              detected_frequency |-> detected_frequency,
              target_frequency |-> target_frequency,
              note_name |-> IF n.ret >= 0 THEN guitar_notes(v)[n.ret + 1][2] ELSE "?",
              octave |-> IF n.ret >= 0 THEN guitar_notes(v)[n.ret + 1][4] ELSE 0]

(***************************************************************************)
(* audio_sequencer.c                                                       *)
(***************************************************************************)
\* uint32_t values: [hi, lo] stands for hi * 65536 + lo
U32FromInt(n) == [hi |-> (n \div 65536) % 65536, lo |-> n % 65536]

\* a + b in uint32_t arithmetic (modulo 2^32)
U32Add(a, b) ==
    [hi |-> (a.hi + b.hi + ((a.lo + b.lo) \div 65536)) % 65536,
     lo |-> (a.lo + b.lo) % 65536]

\* a >= b on uint32_t
U32Geq(a, b) == a.hi > b.hi \/ (a.hi = b.hi /\ a.lo >= b.lo)

\* the value of a uint32_t below 2^31
U32ToInt(a) == a.hi * 65536 + a.lo

\* beep_rates with the intervals of two neighbouring rows exchanged
beep_rates_swapped ==
    << <<100000, 100>>, <<75000, 200>>, <<50000, 150>>, <<40000, 300>>,
       <<25000, 500>>, <<15000, 800>>, <<5000, 1200>>, <<0, 0>> >>

\* beep_rates[]: {max_cents, beep_interval}; max_cents in 1/1000 cent
beep_rates ==
    << <<100000, 100>>, <<75000, 150>>, <<50000, 200>>, <<40000, 300>>,
       <<25000, 500>>, <<15000, 800>>, <<5000, 1200>>, <<0, 0>> >>

NUM_BEEP_RATES == Len(beep_rates)

\* calculate_beep_interval comparing with ">" where the code has ">="
calculate_beep_interval_strict(cents_offset) ==
    LET abs_cents == Abs(cents_offset)
        hits == {i \in 1..NUM_BEEP_RATES : abs_cents > beep_rates[i][1]}
    IN  IF hits = {} THEN 0
        ELSE beep_rates[CHOOSE i \in hits : \A j \in hits : i <= j][2]

\* the for loop returns at the first i with abs_cents >= beep_rates[i].max_cents,
\* and 0 when there is none
calculate_beep_interval(cents_offset) ==
    LET abs_cents == Abs(cents_offset)
        hits == {i \in 1..NUM_BEEP_RATES : abs_cents >= beep_rates[i][1]}
    IN  IF hits = {} THEN 0
        ELSE beep_rates[CHOOSE i \in hits : \A j \in hits : i <= j][2]

\* the deadline test with ">" where the code has ">="
BeepDueStrict(current_time_ms, last_time, beep_interval) ==
    LET deadline == U32Add(last_time, U32FromInt(beep_interval))
    IN  U32Geq(current_time_ms, deadline) /\ current_time_ms # deadline

\* "current_time_ms >= last_beep_time + beep_interval", all uint32_t
BeepDue(current_time_ms, last_time, beep_interval) ==
    U32Geq(current_time_ms, U32Add(last_time, U32FromInt(beep_interval)))

get_string_filename(string_num) ==
    CASE string_num = 1 -> "E.WAV"
      [] string_num = 2 -> "B.WAV"
      [] string_num = 3 -> "G.WAV"
      [] string_num = 4 -> "D.WAV"
      [] string_num = 5 -> "A.WAV"
      [] string_num = 6 -> "E.WAV"
      [] OTHER -> "NULL"

get_cents_filename(cents) ==
    IF Abs(cents) < 5000 THEN "NULL"
    ELSE IF Abs(cents) < 15000 THEN "10CENTS.WAV"
    ELSE IF Abs(cents) < 25000 THEN "20CENTS.WAV"
    ELSE "20CENTS.WAV"

\* play_audio_file, after the callers' "if (file)" test
PlayIfFile(file) == IF file = "NULL" THEN << >> ELSE <<file>>

(***************************************************************************)
(* State.                                                                  *)
(***************************************************************************)
VARIABLES
    version,          \* which string_detection.c is linked in
    audio_processing, \* audio_processing.c statics
    hardware_interface, \* hardware_interface.c statics of the buttons
    button_log,       \* history: the button calls and what they returned
    results,          \* the caller's TuningResult objects, by slot
    latest,           \* history: slot of the result produced last, 0 if none
    is_playing,       \* audio_sequencer.c statics
    current_result,   \*   pointer: a slot, or 0 for NULL
    playback_step,
    last_beep_time,
    beep_end_time,
    beeping_active,
    handed,           \* history: argument of the last generate_dynamic_beep_feedback
                      \*   call (a slot, 0 for NULL), -1 before the first call
    op,               \* history: the operation called last
    out,              \* history: what the call made last played or beeped
    call,             \* history: the last call of a pure function, with its result
    prev_call,        \* history: the call of a pure function before that
    poll              \* history of a fixed-period polling loop

vars == <<version, audio_processing, hardware_interface, button_log, results,
          latest, is_playing, current_result, playback_step, last_beep_time,
          beep_end_time, beeping_active, handed, op, out, call, prev_call, poll>>

sequencer == <<is_playing, current_result, playback_step, last_beep_time,
               beep_end_time, beeping_active>>

\* period 0: no polling loop runs; first, last: times of the first and of the
\* latest beep of the loop; count: beeps after the first
NoPoll == [period |-> 0, clock |-> 0, first |-> 0 - 1, last |-> 0 - 1, count |-> 0]

\* the statics' initialisers, and nothing produced yet; V: the versions of
\* string_detection.c the program may be built with
InitWith(V) ==
    /\ version \in V
    /\ audio_processing = [fft_initialized |-> 0, demo_counter |-> 0]
    /\ hardware_interface = HardwareInterfaceStatics
    /\ button_log = NoButtonCalls
    /\ results = << >>
    /\ latest = 0
    /\ is_playing = 0
    /\ current_result = 0
    /\ playback_step = 0
    /\ last_beep_time = U32FromInt(0)
    /\ beep_end_time = U32FromInt(0)
    /\ beeping_active = 0
    /\ handed = 0 - 1
    /\ op = "start"
    /\ out = << >>
    /\ call = NoCall
    /\ prev_call = NoCall
    /\ poll = NoPoll

\* The two copies in src/src/string_detection.c differ in the note table
\* only, which the beeper never reads: one of them stands for both.
BeeperVersions == {"src", "unit_testing"}

Init == InitWith(BeeperVersions)

(***************************************************************************)
(* The caller (the main loop) and the operations of audio_sequencer.c.     *)
(***************************************************************************)
\* current_target_string values of the main loop: 0 is auto-detect
CallerTargets == {0, 5}

\* frequencies (1/100 Hz) the detector delivers to the feedback loop: a flat
\* A string, an exact one, and one 3 cents sharp
BeeperFrequencies == {10800, 11000, 11020}

\* millis() values the main loop may pass, the last one 100 ms before the wrap
Times ==
    {U32FromInt(0), U32FromInt(500), U32FromInt(600), [hi |-> 65535, lo |-> 65436]}

\* process_tuning_cycle: the analysis of one cycle, stored in a TuningResult
\* of the caller (an existing object overwritten in place, or a new one)
CallerAnalyze(slot, detected_frequency, target_string) ==
    /\ slot <= Len(results) + 1
    /\ \E u \in UninitDoubles :
          LET r == IF target_string = 0
                   THEN analyze_tuning_auto(version, detected_frequency, u)
                   ELSE analyze_tuning(version, detected_frequency, target_string, u)
          IN  results' = IF slot <= Len(results)
                         THEN [results EXCEPT ![slot] = r]
                         ELSE Append(results, r)
    /\ latest' = slot
    /\ op' = "analyze"
    /\ out' = << >>
    /\ UNCHANGED <<hardware_interface, button_log>>
    /\ UNCHANGED <<version, audio_processing, sequencer, handed, call, prev_call, poll>>

\* result: a slot, or 0 for NULL
GenerateDynamicBeepFeedback(result) ==
    /\ IF result = 0
       THEN /\ beeping_active' = 0
            /\ UNCHANGED <<last_beep_time, current_result>>
       ELSE LET beep_interval == calculate_beep_interval(results[result].cents_offset)
            IN  /\ IF beep_interval = 0
                   THEN beeping_active' = 0 /\ UNCHANGED last_beep_time
                   ELSE beeping_active' = 1 /\ last_beep_time' = U32FromInt(0)
                /\ current_result' = result
    /\ handed' = result
    /\ op' = "generate_dynamic_beep_feedback"
    /\ out' = << >>
    /\ UNCHANGED <<is_playing, playback_step, beep_end_time>>
    /\ UNCHANGED <<hardware_interface, button_log>>
    /\ UNCHANGED <<version, audio_processing, results, latest, call, prev_call, poll>>

AudioSequencerInit ==
    /\ is_playing' = 0
    /\ playback_step' = 0
    /\ beeping_active' = 0
    /\ last_beep_time' = U32FromInt(0)
    /\ beep_end_time' = U32FromInt(0)
    /\ op' = "audio_sequencer_init"
    /\ out' = << >>
    /\ UNCHANGED current_result
    /\ UNCHANGED <<hardware_interface, button_log>>
    /\ UNCHANGED <<version, audio_processing, results, latest, handed, call, prev_call, poll>>

GenerateAudioFeedback(result) ==
    /\ current_result' = result
    /\ is_playing' = 1
    /\ playback_step' = 0
    /\ op' = "generate_audio_feedback"
    /\ out' = << >>
    /\ UNCHANGED <<last_beep_time, beep_end_time, beeping_active>>
    /\ UNCHANGED <<hardware_interface, button_log>>
    /\ UNCHANGED <<version, audio_processing, results, latest, handed, call, prev_call, poll>>

\* the clips one audio_sequencer_update call plays at playback_step 0, 1, 2
StepClips(r, step) ==
    CASE step = 0 -> PlayIfFile(get_string_filename(r.detected_string))
      [] step = 1 -> IF r.direction # "IN_TUNE"
                     THEN PlayIfFile(get_cents_filename(r.cents_offset))
                     ELSE << >>
      [] OTHER -> IF r.direction # "IN_TUNE"
                  THEN PlayIfFile(IF r.direction = "UP" THEN "UP.WAV"
                                  ELSE IF r.direction = "DOWN" THEN "DOWN.WAV"
                                  ELSE "NULL")
                  ELSE <<"IN_TUNE.WAV">>

\* audio_sequencer_update whose default case restarts the sequence instead of
\* ending it
AudioSequencerUpdateRepeating ==
    /\ IF is_playing = 0 \/ current_result = 0
       THEN out' = << >> /\ UNCHANGED <<is_playing, playback_step>>
       ELSE IF playback_step \in {0, 1, 2}
       THEN /\ out' = StepClips(results[current_result], playback_step)
            /\ playback_step' = playback_step + 1
            /\ UNCHANGED is_playing
       ELSE /\ UNCHANGED is_playing
            /\ playback_step' = 0
            /\ out' = << >>
    /\ op' = "audio_sequencer_update"
    /\ UNCHANGED <<current_result, last_beep_time, beep_end_time, beeping_active>>
    /\ UNCHANGED <<hardware_interface, button_log>>
    /\ UNCHANGED <<version, audio_processing, results, latest, handed, call, prev_call, poll>>

AudioSequencerUpdate ==
    /\ IF is_playing = 0 \/ current_result = 0
       THEN out' = << >> /\ UNCHANGED <<is_playing, playback_step>>
       ELSE IF playback_step \in {0, 1, 2}
       THEN /\ out' = StepClips(results[current_result], playback_step)
            /\ playback_step' = playback_step + 1
            /\ UNCHANGED is_playing
       ELSE /\ is_playing' = 0
            /\ playback_step' = 0
            /\ out' = << >>
    /\ op' = "audio_sequencer_update"
    /\ UNCHANGED <<current_result, last_beep_time, beep_end_time, beeping_active>>
    /\ UNCHANGED <<hardware_interface, button_log>>
    /\ UNCHANGED <<version, audio_processing, results, latest, handed, call, prev_call, poll>>

\* audio_sequencer_update_beeps, the polling history left to its caller
UpdateBeeps(current_time_ms) ==
    /\ IF beeping_active = 0 \/ current_result = 0
       THEN out' = << >> /\ UNCHANGED <<beeping_active, last_beep_time, beep_end_time>>
       ELSE LET beep_interval ==
                    calculate_beep_interval(results[current_result].cents_offset)
            IN  IF beep_interval = 0
                THEN /\ beeping_active' = 0
                     /\ out' = << >>
                     /\ UNCHANGED <<last_beep_time, beep_end_time>>
                ELSE IF BeepDue(current_time_ms, last_beep_time, beep_interval)
                THEN /\ out' = <<"BEEP">>
                     /\ last_beep_time' = current_time_ms
                     /\ beep_end_time' = U32Add(current_time_ms, U32FromInt(50))
                     /\ UNCHANGED beeping_active
                ELSE /\ out' = << >>
                     /\ UNCHANGED <<beeping_active, last_beep_time, beep_end_time>>
    /\ op' = "audio_sequencer_update_beeps"
    /\ UNCHANGED <<is_playing, current_result, playback_step>>
    /\ UNCHANGED <<hardware_interface, button_log>>
    /\ UNCHANGED <<version, audio_processing, results, latest, handed, call, prev_call>>

AudioSequencerUpdateBeeps(current_time_ms) ==
    UpdateBeeps(current_time_ms) /\ UNCHANGED poll

\* The dynamic beeper driven as audio_sequencer.h describes: results are
\* analysed (in auto-detect mode, the main loop's initial mode; against the
\* A string these frequencies give the same results in targeted mode),
\* handed to generate_dynamic_beep_feedback, and the main loop calls
\* audio_sequencer_update_beeps with its clock.
Next ==
    \/ \E slot \in Slots, d \in BeeperFrequencies : CallerAnalyze(slot, d, 0)
    \/ \E p \in {0} \cup DOMAIN results : GenerateDynamicBeepFeedback(p)
    \/ \E t \in Times : AudioSequencerUpdateBeeps(t)

Spec == Init /\ [][Next]_vars

(***************************************************************************)
(* The tuning evaluator called directly, as tuner_tests.c does.            *)
(***************************************************************************)
\* detected frequencies (1/100 Hz): negative, zero, the low E, A4, and
\* 1400 Hz, which is more than 1000 Hz above every string
TuningFrequencies == {0 - 100, 0, 8241, 44000, 140000}

\* target_string arguments: invalid ones on both sides of 1..6, and a valid one
TargetStrings == {0 - 1, 0, 5, 7}

\* frequencies for the two table scans: far below and far above the tables,
\* 221.47 Hz at equal distance from strings 2 and 3, 1400 Hz within 1000 Hz
\* of the last note only
ScanFrequencies ==
    {0 - 100000, 0, 8241, 22147, 44000, 100000, 140000, 160000}

PureCall(fn, args, ret) ==
    /\ call' = [fn |-> fn, args |-> args, ret |-> ret]
    /\ prev_call' = call
    /\ UNCHANGED <<hardware_interface, button_log>>
    /\ UNCHANGED <<version, audio_processing, results, latest, sequencer, handed, op, out, poll>>

CallAnalyzeTuning(detected_frequency, target_string) ==
    \E u \in UninitDoubles :
        PureCall("analyze_tuning", <<detected_frequency, target_string>>,
                 analyze_tuning(version, detected_frequency, target_string, u))

CallAnalyzeTuningAuto(detected_frequency) ==
    \E u \in UninitDoubles :
        PureCall("analyze_tuning_auto", <<detected_frequency>>,
                 analyze_tuning_auto(version, detected_frequency, u))

\* the caller's double is uninitialised when its address is passed; ret holds
\* the return value and what the out-parameter holds after the call
CallFindClosestString(frequency) ==
    \E u \in UninitDoubles :
        PureCall("find_closest_string", <<frequency>>,
                 find_closest_string(frequency, u))

CallFindClosestNote(frequency) ==
    \E u \in UninitDoubles :
        PureCall("find_closest_note", <<frequency>>,
                 find_closest_note(version, frequency, u, u))

NextTuning ==
    \/ \E d \in TuningFrequencies, ts \in TargetStrings : CallAnalyzeTuning(d, ts)
    \/ \E d \in TuningFrequencies : CallAnalyzeTuningAuto(d)
    \/ \E f \in ScanFrequencies : CallFindClosestString(f)
    \/ \E f \in ScanFrequencies : CallFindClosestNote(f)

SpecTuning == InitWith(Versions) /\ [][NextTuning]_vars

(***************************************************************************)
(* calculate_beep_interval called directly.                                *)
(***************************************************************************)
\* cents offsets in 1/1000 cent: every threshold of beep_rates, the values
\* next to it, both signs, and values inside the in-tune band
CentsOffsets ==
    {-1200000, -100001, -100000, -99999, -75000, -74999, -50000, -49999,
     -40000, -39999, -25000, -24999, -15000, -14999, -10000, -5001, -5000,
     -4999, -3000, 0, 3000, 4999, 5000, 5001, 10000, 14999, 15000, 24999,
     25000, 39999, 40000, 49999, 50000, 74999, 75000, 99999, 100000,
     100001, 1200000}

CallCalculateBeepInterval(cents_offset) ==
    PureCall("calculate_beep_interval", <<cents_offset>>,
             calculate_beep_interval(cents_offset))

NextBeepInterval == \E c \in CentsOffsets : CallCalculateBeepInterval(c)

\* calculate_beep_interval is the same in every build: one version suffices
SpecBeepInterval == InitWith({"src"}) /\ [][NextBeepInterval]_vars

(***************************************************************************)
(* C1.  A detected frequency <= 0 gives direction UNKNOWN, from            *)
(* analyze_tuning and from analyze_tuning_auto, in every shipped version   *)
(* of string_detection.c.                                                  *)
(***************************************************************************)
C1_NonPositiveFrequencyIsUnknown ==
    (/\ call.fn \in {"analyze_tuning", "analyze_tuning_auto"}
     /\ call.args[1] <= 0)
        => call.ret.direction = "UNKNOWN"

(***************************************************************************)
(* C2.  For every frequency find_closest_string returns the string in      *)
(* 1..6 whose reference frequency is nearest (the lowest index on a tie)   *)
(* and writes that reference to closest_freq, and find_closest_note        *)
(* returns the index >= 0 of the nearest note; neither returns -1.         *)
(***************************************************************************)
C2_AlwaysNearestEntry ==
    /\ call.fn = "find_closest_string" =>
          /\ call.ret.ret \in 1..6
          /\ \A j \in 1..6 :
                Abs(call.args[1] - string_frequencies[call.ret.ret])
                    <= Abs(call.args[1] - string_frequencies[j])
          /\ \A j \in 1..(call.ret.ret - 1) :
                Abs(call.args[1] - string_frequencies[call.ret.ret])
                    < Abs(call.args[1] - string_frequencies[j])
          /\ call.ret.closest_freq = string_frequencies[call.ret.ret]
    /\ call.fn = "find_closest_note" =>
          /\ call.ret.ret \in 0..(NUM_NOTES(version) - 1)
          /\ \A j \in 1..NUM_NOTES(version) :
                Abs(call.args[1] - guitar_notes(version)[call.ret.ret + 1][1])
                    <= Abs(call.args[1] - guitar_notes(version)[j][1])

(***************************************************************************)
(* C3.  For a target_string outside 1..6 analyze_tuning returns a          *)
(* TuningResult equal field by field to that of analyze_tuning_auto for    *)
(* the same detected frequency.                                            *)
(***************************************************************************)
C3_InvalidTargetEqualsAuto ==
    (/\ prev_call.fn = "analyze_tuning"
     /\ (prev_call.args[2] < 1 \/ prev_call.args[2] > 6)
     /\ call.fn = "analyze_tuning_auto"
     /\ call.args[1] = prev_call.args[1])
        => \A i \in DOMAIN TuningResultFields :
              call.ret[TuningResultFields[i]] = prev_call.ret[TuningResultFields[i]]

C5_MonotoneOverWholeRange ==
    (/\ prev_call.fn = "calculate_beep_interval"
     /\ call.fn = "calculate_beep_interval"
     /\ Abs(prev_call.args[1]) < Abs(call.args[1]))
        => prev_call.ret >= call.ret

(***************************************************************************)
(* C5, amended.  For all magnitudes 5 <= c1 < c2,                          *)
(* calculate_beep_interval(c1) >= calculate_beep_interval(c2); below 5     *)
(* cents the value 0 means "no beep", not the shortest interval.           *)
(***************************************************************************)
C5_MonotoneFromFiveCents ==
    (/\ prev_call.fn = "calculate_beep_interval"
     /\ call.fn = "calculate_beep_interval"
     /\ 5000 <= Abs(prev_call.args[1])
     /\ Abs(prev_call.args[1]) < Abs(call.args[1]))
        => prev_call.ret >= call.ret

\* two calls whose magnitudes lie in different rows, the smaller one first
C5_Witness ==
    /\ prev_call.fn = "calculate_beep_interval"
    /\ call.fn = "calculate_beep_interval"
    /\ prev_call.args[1] = 0 - 50000
    /\ call.args[1] = 75000
    /\ prev_call.ret = 200
    /\ call.ret = 150

(***************************************************************************)
(* C6.  One audio_sequencer_update_beeps(t) call.  Beeper active with an   *)
(* interval I > 0: exactly one beep and last_beep_time = t when            *)
(* t >= last_beep_time + I (the uint32_t sum of the code), otherwise no    *)
(* beep and last_beep_time and beeping_active unchanged.  Beeper not       *)
(* active or no result set: the call changes nothing.                      *)
(***************************************************************************)
C6_UpdateBeepsStep ==
    [][\A t \in Times :
          AudioSequencerUpdateBeeps(t) =>
              IF beeping_active = 0 \/ current_result = 0
              THEN out' = << >> /\ UNCHANGED sequencer
              ELSE LET I == calculate_beep_interval(results[current_result].cents_offset)
                       deadline == U32Add(last_beep_time, U32FromInt(I))
                   IN  I > 0 =>
                          IF U32Geq(t, deadline)
                          THEN out' = <<"BEEP">> /\ last_beep_time' = t
                          ELSE /\ out' = << >>
                               /\ UNCHANGED <<last_beep_time, beeping_active>>]_vars

\* a beep at t = 500 ms: the deadline 0 + 500 was met exactly
C6_Witness ==
    /\ op = "audio_sequencer_update_beeps"
    /\ out = <<"BEEP">>
    /\ last_beep_time = U32FromInt(500)
    /\ calculate_beep_interval(results[current_result].cents_offset) = 500

(***************************************************************************)
(* C7.  audio_sequencer_update_beeps decides from the most recently        *)
(* produced TuningResult: when the object handed to the beeper holds the   *)
(* latest result and its offset maps to a nonzero interval, the beeper is  *)
(* beeping after the call, also when an earlier in-tune offset had         *)
(* silenced it.                                                            *)
(***************************************************************************)
C7_LatestResultDecides ==
    (/\ op = "audio_sequencer_update_beeps"
     /\ handed > 0
     /\ handed = latest
     /\ calculate_beep_interval(results[latest].cents_offset) > 0)
        => beeping_active = 1

(***************************************************************************)
(* C9.  The beeper is active exactly for out-of-tune results: after        *)
(* generate_dynamic_beep_feedback it is active if and only if the result   *)
(* handed over has direction UP or DOWN, and it is idle while no result    *)
(* has been supplied.                                                      *)
(***************************************************************************)
C9_ActiveExactlyWhenOutOfTune ==
    /\ handed <= 0 => beeping_active = 0
    /\ (op = "generate_dynamic_beep_feedback" /\ handed > 0) =>
          (beeping_active = 1 <=> results[handed].direction \in {"UP", "DOWN"})

(***************************************************************************)
(* A detector that delivers 0.0 on every cycle.                            *)
(***************************************************************************)
NextInvalid ==
    \/ \E slot \in Slots, ts \in CallerTargets : CallerAnalyze(slot, 0, ts)
    \/ \E p \in {0} \cup DOMAIN results : GenerateDynamicBeepFeedback(p)
    \/ \E t \in Times : AudioSequencerUpdateBeeps(t)

SpecInvalid == InitWith(Versions) /\ [][NextInvalid]_vars

(***************************************************************************)
(* C10.  With a detected frequency of 0.0 on every cycle the beeper stays  *)
(* idle whatever result is handed to generate_dynamic_beep_feedback, and   *)
(* no audio_sequencer_update_beeps call emits a beep.                      *)
(***************************************************************************)
C10_InvalidSignalNeverBeeps == beeping_active = 0 /\ out # <<"BEEP">>

\* a result of the silent detector was handed over and the beeper polled
C10_Witness ==
    /\ op = "audio_sequencer_update_beeps"
    /\ handed > 0
    /\ results[handed].detected_frequency = 0
    /\ last_beep_time = U32FromInt(0)

(***************************************************************************)
(* The main loop polling audio_sequencer_update_beeps every poll.period ms *)
(* while one out-of-tune result stays current.                             *)
(***************************************************************************)
\* beeps after the first that a polling run is followed for
MaxPollBeeps == 4

\* polling periods in ms, within the 10-50 ms audio_sequencer.h asks for
PollPeriods == {10, 40, 50}

\* detected frequencies of the polling runs: intervals 500 ms and 100 ms
\* against the A string
PollingFrequencies == {10800, 11700}

StartPolling(period) ==
    /\ poll.period = 0
    /\ beeping_active = 1
    /\ poll' = [NoPoll EXCEPT !.period = period]
    /\ UNCHANGED <<hardware_interface, button_log>>
    /\ UNCHANGED <<version, audio_processing, results, latest, sequencer, handed, op, out,
                   call, prev_call>>

\* one iteration of loop(): millis() has advanced by the period
Poll ==
    /\ poll.period > 0
    /\ poll.count < MaxPollBeeps
    /\ LET now == poll.clock + poll.period
       IN  /\ UpdateBeeps(U32FromInt(now))
           /\ poll' = IF out' # <<"BEEP">> THEN [poll EXCEPT !.clock = now]
                      ELSE IF poll.first < 0
                      THEN [poll EXCEPT !.clock = now, !.first = now, !.last = now]
                      ELSE [poll EXCEPT !.clock = now, !.last = now,
                                        !.count = poll.count + 1]

NextPolling ==
    \/ /\ poll.period = 0
       /\ latest = 0
       /\ \E d \in PollingFrequencies : CallerAnalyze(1, d, 5)
    \/ /\ poll.period = 0
       /\ latest # 0
       /\ handed < 0
       /\ GenerateDynamicBeepFeedback(1)
    \/ \E p \in PollPeriods : StartPolling(p)
    \/ Poll

SpecPolling == InitWith(Versions) /\ [][NextPolling]_vars

(***************************************************************************)
(* C8.  Polled every P ms with a constant nonzero interval I, the k-th     *)
(* beep after the first comes no later than k * I + P after the first      *)
(* beep.                                                                   *)
(***************************************************************************)
C8_NoDriftBeyondOnePoll ==
    poll.count >= 1 =>
        poll.last <= poll.first + poll.period
            + poll.count * calculate_beep_interval(results[current_result].cents_offset)

(***************************************************************************)
(* C11.  In auto mode, for every detected frequency, detected_string =     *)
(* target_string, that string is the nearest of the six, and               *)
(* target_frequency is its reference frequency.                            *)
(***************************************************************************)
C11_AutoTargetsNearestString ==
    call.fn = "analyze_tuning_auto" =>
        /\ call.ret.detected_string = call.ret.target_string
        /\ call.ret.target_string \in 1..6
        /\ call.ret.target_frequency = string_frequencies[call.ret.target_string]
        /\ \A j \in 1..6 :
              Abs(call.args[1] - string_frequencies[call.ret.target_string])
                  <= Abs(call.args[1] - string_frequencies[j])

(***************************************************************************)
(* C12.  In targeted mode (target_string in 1..6) the result echoes        *)
(* target_string, target_frequency is that string's reference, cents_offset*)
(* and (for a positive frequency) direction are computed against it, and   *)
(* detected_string is the string nearest to the detected frequency,        *)
(* whatever the target.                                                    *)
(***************************************************************************)
C12_TargetedMode ==
    (call.fn = "analyze_tuning" /\ call.args[2] \in 1..6) =>
        LET d == call.args[1]
            t == call.args[2]
            r == call.ret
        IN  /\ r.target_string = t
            /\ r.target_frequency = string_frequencies[t]
            /\ r.cents_offset = calculate_cents_offset(d, string_frequencies[t])
            /\ d > 0 => r.direction = get_tuning_direction(version, r.cents_offset)
            /\ r.detected_string \in 1..6
            /\ \A j \in 1..6 :
                  Abs(d - string_frequencies[r.detected_string])
                      <= Abs(d - string_frequencies[j])

(***************************************************************************)
(* calculate_cents_offset and get_tuning_direction called directly, as     *)
(* test_cents_calculation and test_tuning_direction of tuner_tests.c do.   *)
(***************************************************************************)
\* cents arguments (1/1000 cent): both tolerances, their neighbours, both
\* signs, and offsets far out of tune
DirectionCents ==
    {0 - 50000, 0 - 5001, 0 - 5000, 0 - 4999, 0 - 2001, 0 - 2000, 0 - 1999, 0,
     1999, 2000, 2001, 4999, 5000, 5001, 50000}

\* detected frequencies (1/100 Hz) of the cents calls: invalid ones, the test
\* values around 440 Hz, and the two frequencies next to 440.00
DetectedFrequencies ==
    {0 - 100, 0, 11000, 43000, 43900, 43999, 44000, 44001, 44050, 44100,
     45000, 46616}

\* target frequencies of the cents calls
TargetFrequencies == {0 - 100, 0, 11000, 44000}

CallCalculateCentsOffset(detected_freq, target_freq) ==
    PureCall("calculate_cents_offset", <<detected_freq, target_freq>>,
             calculate_cents_offset(detected_freq, target_freq))

CallGetTuningDirection(cents) ==
    PureCall("get_tuning_direction", <<cents>>, get_tuning_direction(version, cents))

\* test_tuning_direction: the direction of the offset just computed
CallGetTuningDirectionOfOffset ==
    /\ call.fn = "calculate_cents_offset"
    /\ CallGetTuningDirection(call.ret)

NextCents ==
    \/ \E d \in DetectedFrequencies, t \in TargetFrequencies :
          CallCalculateCentsOffset(d, t)
    \/ \E c \in DirectionCents : CallGetTuningDirection(c)
    \/ CallGetTuningDirectionOfOffset

SpecCents == InitWith(Versions) /\ [][NextCents]_vars

(***************************************************************************)
(* C13.  get_tuning_direction(cents) is UP exactly when cents < -tolerance,*)
(* DOWN exactly when cents > tolerance, IN_TUNE otherwise; cents equal to  *)
(* +tolerance or -tolerance is IN_TUNE; a negative offset never gives DOWN *)
(* and a positive one never gives UP.                                      *)
(***************************************************************************)
C13_DirectionByTolerance ==
    call.fn = "get_tuning_direction" =>
        LET cents == call.args[1]
            tolerance == IF version = "unit_testing" THEN 5000 ELSE 2000
        IN  /\ call.ret = "UP" <=> cents < 0 - tolerance
            /\ call.ret = "DOWN" <=> cents > tolerance
            /\ call.ret = "IN_TUNE" <=> (0 - tolerance <= cents /\ cents <= tolerance)
            /\ (cents = tolerance \/ cents = 0 - tolerance) => call.ret = "IN_TUNE"
            /\ cents < 0 => call.ret # "DOWN"
            /\ cents > 0 => call.ret # "UP"

\* the boundary +2.0 cents with tolerance 2.0 has been classified
C13_Witness ==
    /\ version = "src"
    /\ call.fn = "get_tuning_direction"
    /\ call.args[1] = 2000
    /\ call.ret = "IN_TUNE"

(***************************************************************************)
(* C14.  With the tolerance of 5 cents: 439.0 Hz against 440.0 Hz is UP,   *)
(* 441.0 Hz against 440.0 Hz is DOWN, 440.0 Hz against 440.0 Hz is IN_TUNE.*)
(***************************************************************************)
C14_FourCentsOffIsOutOfTune ==
    (/\ TUNING_TOLERANCE(version) = 5000
     /\ prev_call.fn = "calculate_cents_offset"
     /\ prev_call.args[2] = 44000
     /\ call.fn = "get_tuning_direction"
     /\ call.args[1] = prev_call.ret)
        => /\ prev_call.args[1] = 43900 => call.ret = "UP"
           /\ prev_call.args[1] = 44100 => call.ret = "DOWN"
           /\ prev_call.args[1] = 44000 => call.ret = "IN_TUNE"

(***************************************************************************)
(* C15.  calculate_cents_offset(detected, target) is 0 when either         *)
(* argument is <= 0; for two positive arguments it is 0 exactly when       *)
(* detected = target, negative when detected < target, positive when       *)
(* detected > target, and non-decreasing in detected for a fixed target.   *)
(***************************************************************************)
C15_CentsOffsetSignAndOrder ==
    /\ call.fn = "calculate_cents_offset" =>
          LET detected == call.args[1]
              target == call.args[2]
          IN  /\ (detected <= 0 \/ target <= 0) => call.ret = 0
              /\ (detected > 0 /\ target > 0) =>
                    /\ call.ret = 0 <=> detected = target
                    /\ detected < target => call.ret < 0
                    /\ detected > target => call.ret > 0
    /\ (/\ prev_call.fn = "calculate_cents_offset"
        /\ call.fn = "calculate_cents_offset"
        /\ prev_call.args[2] = call.args[2]
        /\ call.args[2] > 0
        /\ 0 < prev_call.args[1]
        /\ prev_call.args[1] <= call.args[1])
          => prev_call.ret <= call.ret

\* 439.99 Hz and then 440.01 Hz against 440.00 Hz: the offsets of the two
\* nearest neighbours of the target have opposite signs
C15_Witness ==
    /\ prev_call.fn = "calculate_cents_offset"
    /\ call.fn = "calculate_cents_offset"
    /\ prev_call.args = <<43999, 44000>>
    /\ call.args = <<44001, 44000>>
    /\ prev_call.ret < 0
    /\ call.ret > 0

(***************************************************************************)
(* audio_processing.c.  Two implementations are shipped: the one with the  *)
(* radix-2 FFT, built with src/src, and the one with a simulated apply_fft,*)
(* which "Guitar Unit Testing Files" builds with its tolerance-5           *)
(* string_detection.c.  Magnitudes are in 1/1000, gain factors in 1/4.     *)
(***************************************************************************)
SAMPLE_RATE == 10000

SAMPLE_SIZE == 1024

MIN_AMPLITUDE == 50

FFT_SIZE == 256

AudioVersion(v) == IF v = "unit_testing" THEN "simulated" ELSE "fft"

\* find_peak_frequency converting the peak bin with num_bins where the code
\* has FFT_SIZE
FindPeakFrequencyPerBinCount(magnitude, num_bins, sampling_rate) ==
    LET limit == (num_bins * 2000) \div sampling_rate
        search_limit == IF limit > num_bins THEN num_bins ELSE limit
        scan[i \in 0..(IF search_limit > 1 THEN search_limit - 1 ELSE 0)] ==
            IF i = 0 THEN <<0, 0>>
            ELSE LET before == scan[i - 1]
                 IN  IF magnitude[i] > before[2] THEN <<i, magnitude[i]>>
                     ELSE before
        peak == scan[IF search_limit > 1 THEN search_limit - 1 ELSE 0]
    IN  IF peak[2] < 500 THEN 0
        ELSE (peak[1] * sampling_rate * 100) \div num_bins

\* find_peak_frequency comparing with ">=" where the code has ">"
FindPeakFrequencyLastOfTies(magnitude, num_bins, sampling_rate) ==
    LET limit == (num_bins * 2000) \div sampling_rate
        search_limit == IF limit > num_bins THEN num_bins ELSE limit
        scan[i \in 0..(IF search_limit > 1 THEN search_limit - 1 ELSE 0)] ==
            IF i = 0 THEN <<0, 0>>
            ELSE LET before == scan[i - 1]
                 IN  IF magnitude[i] >= before[2] THEN <<i, magnitude[i]>>
                     ELSE before
        peak == scan[IF search_limit > 1 THEN search_limit - 1 ELSE 0]
    IN  IF peak[2] < 500 THEN 0
        ELSE (peak[1] * sampling_rate * 100) \div FFT_SIZE

\* The loop of find_peak_frequency over bins 1 .. search_limit - 1; scan[i]
\* holds <<peak_bin, peak_magnitude>> after bin i.  The frequency of the peak
\* bin is returned in 1/100 Hz, 0 when the peak is below 0.5.
find_peak_frequency(magnitude, num_bins, sampling_rate) ==
    LET limit == (num_bins * 2000) \div sampling_rate
        search_limit == IF limit > num_bins THEN num_bins ELSE limit
        scan[i \in 0..(IF search_limit > 1 THEN search_limit - 1 ELSE 0)] ==
            IF i = 0 THEN <<0, 0>>
            ELSE LET before == scan[i - 1]
                 IN  IF magnitude[i] > before[2] THEN <<i, magnitude[i]>>
                     ELSE before
        peak == scan[IF search_limit > 1 THEN search_limit - 1 ELSE 0]
    IN  IF peak[2] < 500 THEN 0
        ELSE (peak[1] * sampling_rate * 100) \div FFT_SIZE

\* A block of samples is a sampled sine, as generate_test_sine and
\* audio_processing_capture produce: amplitude * sin(2 pi bin i / FFT_SIZE),
\* a tone on the centre of an FFT bin.
Tone(amplitude, bin) == [amplitude |-> amplitude, bin |-> bin]

\* samples == NULL
NullSamples == Tone(0 - 1, 0)

\* the loop of apply_fft over |samples[i]|: the sine reaches its amplitude
\* within every num_samples >= FFT_SIZE samples
MaxAmplitude(samples, num_samples) ==
    IF num_samples = 0 THEN 0 ELSE samples.amplitude

\* A block that holds amplitude * sin(2 pi frequency i / SAMPLE_RATE), the
\* sine test_fft_computation and generate_test_sine inject; frequency is one
\* of string_frequencies, which lie between the bin centres.
Sine(amplitude, frequency) == [frequency |-> frequency, amplitude |-> amplitude]

\* Steps 2 to 4 of apply_fft for sin(2 pi f i / SAMPLE_RATE) of amplitude 1:
\* the magnitude of bins 0 .. 19 in units of 10^-6, after the division by
\* 32768, the Hann window over 256 samples and the 256-point transform, for
\* each f of string_frequencies.  The bins from 20 on hold less than
\* 0.5 * 10^-6.
OpenStringResponse ==
    << <<2, 2, 3, 4, 8, 17, 51, 401, 1717, 1583, 276, 43, 15, 7, 4, 2, 1, 1, 1, 1>>,
       <<3, 4, 7, 16, 51, 538, 1820, 1436, 177, 33, 12, 6, 3, 2, 1, 1, 1, 0, 0, 0>>,
       <<0, 0, 1, 3, 953, 1945, 1004, 9, 2, 1, 1, 0, 0, 0, 0, 0, 0, 0, 0, 0>>,
       <<13, 25, 120, 1326, 1874, 641, 46, 13, 6, 3, 2, 1, 1, 0, 0, 0, 0, 0, 0, 0>>,
       <<21, 83, 1247, 1903, 718, 40, 11, 5, 2, 1, 1, 1, 0, 0, 0, 0, 0, 0, 0, 0>>,
       <<17, 815, 1933, 1137, 47, 11, 5, 2, 1, 1, 1, 0, 0, 0, 0, 0, 0, 0, 0, 0>> >>

\* the magnitude spectrum of a Sine block, linear in its amplitude
SineSpectrum(samples) ==
    LET s == CHOOSE s \in 1..6 : string_frequencies[s] = samples.frequency
    IN  [i \in 0..(FFT_SIZE \div 2 - 1) |->
            IF i < 20 THEN (samples.amplitude * OpenStringResponse[s][i + 1]) \div 1000
            ELSE 0]

\* Steps 2 to 4 of apply_fft.  For a tone on a bin centre the samples
\* divided by 32768, the Hann window and the 256-point transform leave
\* amplitude / 512 in the tone's bin, half of that in its two neighbours and
\* (nearly) nothing elsewhere.
MagnitudeSpectrum(samples) ==
    IF "frequency" \in DOMAIN samples THEN SineSpectrum(samples)
    ELSE [i \in 0..(FFT_SIZE \div 2 - 1) |->
            IF i = samples.bin THEN (samples.amplitude * 1000) \div 512
            ELSE IF i = samples.bin - 1 \/ i = samples.bin + 1
            THEN (samples.amplitude * 1000) \div 1024
            ELSE 0]

\* demo_frequencies of the simulated apply_fft, in 1/100 Hz
demo_frequencies == <<8241, 11000, 14683, 19600, 24694, 32963>>

\* apply_fft without the MIN_AMPLITUDE test
ApplyFftUngated(v, statics, samples, num_samples) ==
    IF AudioVersion(v) = "fft"
    THEN IF statics.fft_initialized = 0 \/ samples = NullSamples \/ num_samples = 0
         THEN [ret |-> 0, demo_counter |-> statics.demo_counter, transformed |-> FALSE]
         ELSE [ret |-> find_peak_frequency(MagnitudeSpectrum(samples),
                                           FFT_SIZE \div 2, SAMPLE_RATE),
               demo_counter |-> statics.demo_counter, transformed |-> TRUE]
    ELSE [ret |-> demo_frequencies[(statics.demo_counter % 6) + 1],
          demo_counter |-> statics.demo_counter + 1, transformed |-> FALSE]

\* apply_fft: ret is the value returned, demo_counter the static counter of
\* the simulated version after the call, transformed tells whether
\* simple_radix2_fft ran
apply_fft(v, statics, samples, num_samples) ==
    IF AudioVersion(v) = "fft"
    THEN IF statics.fft_initialized = 0 \/ samples = NullSamples \/ num_samples = 0
         THEN [ret |-> 0, demo_counter |-> statics.demo_counter, transformed |-> FALSE]
         ELSE IF MaxAmplitude(samples, num_samples) < MIN_AMPLITUDE
         THEN [ret |-> 0, demo_counter |-> statics.demo_counter, transformed |-> FALSE]
         ELSE [ret |-> find_peak_frequency(MagnitudeSpectrum(samples),
                                           FFT_SIZE \div 2, SAMPLE_RATE),
               demo_counter |-> statics.demo_counter, transformed |-> TRUE]
    ELSE IF MaxAmplitude(samples, num_samples) < MIN_AMPLITUDE
         THEN [ret |-> 0, demo_counter |-> statics.demo_counter, transformed |-> FALSE]
         ELSE [ret |-> demo_frequencies[(statics.demo_counter % 6) + 1],
               demo_counter |-> statics.demo_counter + 1, transformed |-> FALSE]

\* s * g / 4 rounded towards zero: the conversion of the float product
TruncatedProduct(s, g) ==
    IF s * g >= 0 THEN (s * g) \div 4 ELSE 0 - ((0 - s * g) \div 4)

Saturate16(x) == IF x > 32767 THEN 32767 ELSE IF x < 0 - 32768 THEN 0 - 32768 ELSE x

\* the low 16 bits of x as an int16_t
Wrap16(x) == ((x + 32768) % 65536) - 32768

\* (int16_t) of a float with integral part x.  Out of the int16_t range the
\* conversion is undefined: a conversion through int keeps the low 16 bits,
\* a folded constant saturates.
Int16Conversions(x) ==
    IF 0 - 32768 <= x /\ x <= 32767 THEN {x} ELSE {Wrap16(x), Saturate16(x)}

\* The arrays apply_gain may leave in samples[0 .. num_samples - 1].  The fft
\* version scales in int32_t and saturates; the simulated version converts
\* the product to int16_t first, after which its two clamps never apply.
apply_gain(v, samples, num_samples, gain_factor) ==
    IF AudioVersion(v) = "fft"
    THEN {[i \in 1..num_samples |-> Saturate16(TruncatedProduct(samples[i], gain_factor))]}
    ELSE LET conversions(i) ==
                 Int16Conversions(TruncatedProduct(samples[i], gain_factor))
             values == UNION {conversions(i) : i \in 1..num_samples}
         IN  {after \in [1..num_samples -> values] :
                \A i \in 1..num_samples : after[i] \in conversions(i)}

(***************************************************************************)
(* find_peak_frequency on the magnitude spectrum apply_fft hands it.       *)
(***************************************************************************)
\* a spectrum of FFT_SIZE / 2 bins with a peak and a second, lower, line
Spectrum(peak_bin, peak, second_bin, second) ==
    [i \in 0..(FFT_SIZE \div 2 - 1) |->
        IF i = peak_bin THEN peak ELSE IF i = second_bin THEN second ELSE 0]

\* bins of the dominant peak: DC, the first bins, both sides of the end of
\* the search loop, both sides of 2000 Hz (bin 51.2), and a high bin
PeakBins == {0, 1, 3, 24, 25, 30, 51, 52, 100}

\* peaks below, on and above the 0.5 threshold; the second line is at bin 3
\* (117 Hz) or at DC
PeakSpectra ==
    {Spectrum(b, m, b2, m \div 2) : b \in PeakBins, m \in {400, 500, 2000}, b2 \in {0, 3}}

CallFindPeakFrequency(magnitude) ==
    PureCall("find_peak_frequency", <<magnitude, FFT_SIZE \div 2, SAMPLE_RATE>>,
             find_peak_frequency(magnitude, FFT_SIZE \div 2, SAMPLE_RATE))

NextPeak == \E m \in PeakSpectra : CallFindPeakFrequency(m)

\* find_peak_frequency exists in the fft version only
SpecPeak == InitWith({"src"}) /\ [][NextPeak]_vars

(***************************************************************************)
(* C16.  find_peak_frequency never selects the DC bin and searches every   *)
(* bin from 1 up to the bin of 2000 Hz (or the last bin): the frequency of *)
(* a dominant peak at a bin below 2000 Hz is returned (0.0 when that peak  *)
(* is below the 0.5 threshold).                                            *)
(***************************************************************************)
C16_DominantPeakBelow2000Hz ==
    call.fn = "find_peak_frequency" =>
        LET magnitude == call.args[1]
            num_bins == call.args[2]
            sampling_rate == call.args[3]
            searched == {i \in 1..(num_bins - 1) : i * sampling_rate < 2000 * FFT_SIZE}
            dominant == {p \in searched :
                            \A j \in searched \ {p} : magnitude[p] > magnitude[j]}
        IN  /\ \A p \in dominant :
                  call.ret = IF magnitude[p] < 500 THEN 0
                             ELSE (p * sampling_rate * 100) \div FFT_SIZE
            /\ call.ret # 0 =>
                  \E i \in searched : call.ret = (i * sampling_rate * 100) \div FFT_SIZE

(***************************************************************************)
(* apply_fft and audio_processing_init.                                    *)
(***************************************************************************)
\* calls of the simulated apply_fft that are followed
MaxDemoCounter == 7

\* amplitudes of the blocks: silence, the weak sine of test_weak_signal, both
\* sides of MIN_AMPLITUDE, and strong signals
ToneAmplitudes == {0, 10, 49, 50, 1000, 20000}

\* bins of the tones: 78, 117, 312 and 1250 Hz
ToneBins == {2, 3, 8, 32}

ToneBlocks == {Tone(a, b) : a \in ToneAmplitudes, b \in ToneBins}

AudioProcessingInit ==
    /\ audio_processing' =
          IF AudioVersion(version) = "fft"
          THEN [audio_processing EXCEPT !.fft_initialized = 1]
          ELSE audio_processing
    /\ call' = [fn |-> "audio_processing_init", args |-> << >>, ret |-> << >>]
    /\ prev_call' = call
    /\ UNCHANGED <<hardware_interface, button_log>>
    /\ UNCHANGED <<version, results, latest, sequencer, handed, op, out, poll>>

CallApplyFft(samples, num_samples) ==
    LET r == apply_fft(version, audio_processing, samples, num_samples)
    IN  /\ r.demo_counter <= MaxDemoCounter
        /\ audio_processing' = [audio_processing EXCEPT !.demo_counter = r.demo_counter]
        /\ call' = [fn |-> "apply_fft", args |-> <<samples, num_samples>>,
                    ret |-> [ret |-> r.ret, transformed |-> r.transformed]]
        /\ prev_call' = call
        /\ UNCHANGED <<hardware_interface, button_log>>
        /\ UNCHANGED <<version, results, latest, sequencer, handed, op, out, poll>>

NextFft ==
    \/ AudioProcessingInit
    \/ \E b \in ToneBlocks \cup {NullSamples}, n \in {0, SAMPLE_SIZE} : CallApplyFft(b, n)

SpecFft == InitWith(Versions) /\ [][NextFft]_vars

(***************************************************************************)
(* C17.  After audio_processing_init, apply_fft returns exactly 0.0        *)
(* without running the transform for every block whose largest absolute    *)
(* sample is below MIN_AMPLITUDE, whatever its frequency.                  *)
(***************************************************************************)
C17_WeakBlockGivesZero ==
    (/\ call.fn = "apply_fft"
     /\ AudioVersion(version) = "fft" => audio_processing.fft_initialized = 1
     /\ call.args[1] # NullSamples
     /\ call.args[1].amplitude < 50)
        => call.ret.ret = 0 /\ ~call.ret.transformed

\* after a strong block was transformed and detected, the fft version was
\* given a full block of amplitude 49
C17_Witness ==
    /\ AudioVersion(version) = "fft"
    /\ audio_processing.fft_initialized = 1
    /\ prev_call.fn = "apply_fft"
    /\ prev_call.ret.transformed
    /\ prev_call.ret.ret > 0
    /\ call.fn = "apply_fft"
    /\ call.args = <<Tone(49, 3), SAMPLE_SIZE>>
    /\ call.ret.ret = 0

(***************************************************************************)
(* apply_gain.                                                             *)
(***************************************************************************)
\* sample arrays: the amplitude of test_gain_application, both ends of the
\* int16_t range, small values of both signs, and an empty array
GainBlocks ==
    {<<20000>>, <<0 - 20000>>, <<100, 0 - 100>>, <<32767, 0 - 32768>>,
     <<3>>, <<0 - 3>>, <<0>>, << >>}

\* gain factors in 1/4: -2.0, 0.0, 0.5, 1.0, 1.25, 1.5, 2.0
GainFactors == {0 - 8, 0, 2, 4, 5, 6, 8}

CallApplyGain(samples, gain_factor) ==
    \E after \in apply_gain(version, samples, Len(samples), gain_factor) :
        PureCall("apply_gain", <<samples, Len(samples), gain_factor>>, after)

NextGain == \E b \in GainBlocks, g \in GainFactors : CallApplyGain(b, g)

SpecGain == InitWith(Versions) /\ [][NextGain]_vars

(***************************************************************************)
(* C18.  In each shipped version apply_gain stores, for every sample s and *)
(* gain g, s * g truncated to an integer and saturated to [-32768, 32767]: *)
(* no sample wraps around the int16_t range.                               *)
(***************************************************************************)
C18_GainSaturates ==
    call.fn = "apply_gain" =>
        \A i \in 1..call.args[2] :
            LET product == call.args[1][i] * call.args[3]
                scaled == IF product >= 0 THEN product \div 4
                          ELSE 0 - ((0 - product) \div 4)
            IN  call.ret[i] = IF scaled > 32767 THEN 32767
                              ELSE IF scaled < 0 - 32768 THEN 0 - 32768
                              ELSE scaled

(***************************************************************************)
(* The static feedback of audio_sequencer.c: a result is analysed, handed  *)
(* to generate_audio_feedback, and audio_sequencer_update is called        *)
(* repeatedly, as test_audio_sequencing and the main loop do.              *)
(***************************************************************************)
\* detected frequencies (1/100 Hz): none, a flat, an exact and a slightly
\* sharp A string, and 1400 Hz, for which no string is detected
PlaybackFrequencies == {0, 10800, 11000, 11050, 140000}

NextPlayback ==
    \/ \E slot \in Slots, d \in PlaybackFrequencies : CallerAnalyze(slot, d, 0)
    \/ \E p \in DOMAIN results : GenerateAudioFeedback(p)
    \/ AudioSequencerUpdate
    \/ AudioSequencerInit

SpecPlayback == InitWith(BeeperVersions) /\ [][NextPlayback]_vars

A4_REFERENCE == 44000

NullButton == << >>

\* 440 * 2^(k/12) for k = 0 .. 11, in 1/10000 Hz
SemitonesAboveA4 ==
    <<4400000, 4661638, 4938833, 5232511, 5543653, 5873295, 6222540,
      6592551, 6984565, 7399888, 7839909, 8306094>>

\* A4_REFERENCE * pow(2.0, total_semitones / 12.0) in 1/100 Hz, rounded, for
\* total_semitones >= -36
SemitoneFrequency(total_semitones) ==
    (SemitonesAboveA4[(total_semitones % 12) + 1] * (2^((total_semitones \div 12) + 3))
        + 400) \div 800

note_to_semitone_offset(note) ==
    CASE note = 1 -> 0
      [] note = 2 -> 2
      [] note = 3 -> 3
      [] note = 4 -> 5
      [] note = 5 -> 7
      [] note = 6 -> 8
      [] note = 7 -> 10
      [] OTHER -> 0 - 1

detect_octave_from_frequency(detected_freq) ==
    IF detected_freq < 8200 THEN 0
    ELSE IF detected_freq < 16400 THEN 2
    ELSE IF detected_freq < 32800 THEN 3
    ELSE IF detected_freq < 65600 THEN 4
    ELSE IF detected_freq < 131200 THEN 5
    ELSE 0

is_valid_button_input(button) ==
    IF button = NullButton THEN 0
    ELSE IF button[1] < 1 \/ button[1] > 7 THEN 0
    ELSE 1

\* button_to_frequency counting 11 semitones to the octave
ButtonToFrequencyElevenSemitones(button, detected_freq) ==
    IF button = NullButton \/ is_valid_button_input(button) = 0 THEN 0 - 100
    ELSE LET octave == detect_octave_from_frequency(detected_freq)
             note_offset == note_to_semitone_offset(button[1])
             octaves_from_a4 == octave - 4
             total_semitones == (octaves_from_a4 * 11) + note_offset
         IN  IF octave = 0 THEN 0 - 100
             ELSE IF note_offset < 0 THEN 0 - 100
             ELSE SemitoneFrequency(total_semitones)

\* the target frequency in 1/100 Hz; -100 is the -1.0 of the error returns
button_to_frequency(button, detected_freq) ==
    IF button = NullButton \/ is_valid_button_input(button) = 0 THEN 0 - 100
    ELSE LET octave == detect_octave_from_frequency(detected_freq)
             note_offset == note_to_semitone_offset(button[1])
             octaves_from_a4 == octave - 4
             total_semitones == (octaves_from_a4 * 12) + note_offset
         IN  IF octave = 0 THEN 0 - 100
             ELSE IF note_offset < 0 THEN 0 - 100
             ELSE SemitoneFrequency(total_semitones)

\* semitones above C of the notes A, B, C, D, E, F, G
SemitonesAboveC == <<9, 11, 0, 2, 4, 5, 7>>

\* the equal-tempered pitch of a natural note in an octave of scientific
\* pitch notation (octaves change at C, A4 = 440 Hz), in 1/100 Hz
NaturalPitch(note, octave) ==
    SemitoneFrequency(12 * (octave - 4) + SemitonesAboveC[note] - 9)

\* the presses of the tests: every natural note played at its own pitch in
\* the octaves 2 to 5
TunedPresses == {<<(<<n>>), NaturalPitch(n, o)>> : n \in 1..7, o \in 2..5}

\* other presses: the header's example (A at 441.5 Hz), NOTE_NONE, a note
\* beyond NOTE_G, no button, and frequencies outside 82 .. 1312 Hz
OtherPresses ==
    {<<(<<1>>), 44150>>, <<(<<0>>), 44000>>, <<(<<8>>), 44000>>,
     <<NullButton, 44000>>, <<(<<5>>), 5000>>, <<(<<5>>), 150000>>}

CallButtonToFrequency(button, detected_freq) ==
    PureCall("button_to_frequency", <<button, detected_freq>>,
             button_to_frequency(button, detected_freq))

NextButton ==
    \E press \in TunedPresses \cup OtherPresses :
        CallButtonToFrequency(press[1], press[2])

\* button_input.c does not depend on string_detection.c
SpecButton == InitWith({"src"}) /\ [][NextButton]_vars

(***************************************************************************)
(* C20.  For every natural-note button N and every detected frequency      *)
(* equal to the equal-tempered pitch of N in an octave 2..5,               *)
(* button_to_frequency returns that pitch within 0.5 Hz.                   *)
(***************************************************************************)
C20_TargetIsPlayedPitch ==
    call.fn = "button_to_frequency" =>
        \A n \in 1..7, o \in 2..5 :
            call.args = <<(<<n>>), NaturalPitch(n, o)>>
                => Abs(call.ret - NaturalPitch(n, o)) <= 50

(***************************************************************************)
(* button_to_frequency called twice with the same button, as               *)
(* run_octave_relationship_tests does.                                     *)
(***************************************************************************)
\* detected frequencies (1/100 Hz): the A of each octave band of
\* detect_octave_from_frequency, both ends of every band, and the values
\* next to the outer ends
OctaveFrequencies ==
    {8199, 8200, 11000, 16399, 16400, 22000, 32799, 32800, 44000, 65599,
     65600, 88000, 131199, 131200}

\* every valid note, NOTE_NONE and a value beyond NOTE_G
OctaveButtons == {<<n>> : n \in 0..8}

NextOctave ==
    \E b \in OctaveButtons, f \in OctaveFrequencies : CallButtonToFrequency(b, f)

SpecOctave == InitWith({"src"}) /\ [][NextOctave]_vars

(***************************************************************************)
(* C21.  For every valid note button and two detected frequencies in       *)
(* adjacent octave bands ([82,164), [164,328), [328,656), [656,1312) Hz),  *)
(* the target of the higher band is the higher one and the ratio of the    *)
(* two targets is 2 within 0.01.                                           *)
(***************************************************************************)
C21_OctaveDoubling ==
    LET band(f) == IF 8200 <= f /\ f < 16400 THEN 1
                   ELSE IF 16400 <= f /\ f < 32800 THEN 2
                   ELSE IF 32800 <= f /\ f < 65600 THEN 3
                   ELSE IF 65600 <= f /\ f < 131200 THEN 4
                   ELSE 0
    IN  (/\ prev_call.fn = "button_to_frequency"
         /\ call.fn = "button_to_frequency"
         /\ call.args[1] = prev_call.args[1]
         /\ call.args[1][1] \in 1..7
         /\ band(prev_call.args[2]) >= 1
         /\ band(call.args[2]) = band(prev_call.args[2]) + 1)
            => /\ prev_call.ret > 0
               /\ call.ret > prev_call.ret
               /\ 100 * Abs(call.ret - 2 * prev_call.ret) < prev_call.ret

\* G at the top of the lowest band (163.99 Hz), then at the bottom of the
\* next band (164.00 Hz): 195.998 Hz and 391.995 Hz
C21_Witness ==
    /\ prev_call.fn = "button_to_frequency"
    /\ call.fn = "button_to_frequency"
    /\ prev_call.args = <<(<<7>>), 16399>>
    /\ call.args = <<(<<7>>), 16400>>
    /\ prev_call.ret = 19600
    /\ call.ret = 39200

(***************************************************************************)
(* C22.  After initialisation the frequency apply_fft returns depends on   *)
(* the block only: a call with the samples of the call before it returns   *)
(* the same value, in each shipped version.                                *)
(***************************************************************************)
C22_SameBlockSameFrequency ==
    (/\ prev_call.fn = "apply_fft"
     /\ call.fn = "apply_fft"
     /\ call.args = prev_call.args
     /\ AudioVersion(version) = "fft" => audio_processing.fft_initialized = 1)
        => call.ret.ret = prev_call.ret.ret

(***************************************************************************)
(* apply_fft on sines at the open-string frequencies, as                   *)
(* test_fft_computation and test_frequency_detection run it.               *)
(***************************************************************************)
\* amplitudes of the sines: below MIN_AMPLITUDE, MIN_AMPLITUDE, weak ones
\* above it, the amplitudes of the two tests and the largest int16_t
SineAmplitudes == {10, 49, 50, 100, 200, 1000, 10000, 20000, 32767}

SineBlocks ==
    {Sine(a, string_frequencies[s]) : a \in SineAmplitudes, s \in 1..6}

NextSine ==
    \/ AudioProcessingInit
    \/ \E b \in SineBlocks : CallApplyFft(b, SAMPLE_SIZE)

\* the builds with the radix-2 FFT
SpecSine == InitWith({"src"}) /\ [][NextSine]_vars

Plateau(bins, level) ==
    [i \in 0..(FFT_SIZE \div 2 - 1) |-> IF i \in bins THEN level ELSE 0]

\* the bins of the plateaus: none, two and three bins inside the search
\* loop, its first and last bin, DC with two bins, and bins on both sides of
\* the end of the loop
PlateauBins == {{}, {3, 5}, {2, 3, 4}, {1, 24}, {0, 3, 5}, {24, 25}, {5, 30}, {25, 30}}

\* levels just below, on and above the 0.5 threshold
TiedSpectra == {Plateau(b, m) : b \in PlateauBins, m \in {499, 500, 2000}}

NextPeakTies == \E m \in PeakSpectra \cup TiedSpectra : CallFindPeakFrequency(m)

SpecPeakTies == InitWith({"src"}) /\ [][NextPeakTies]_vars

C25_FirstBeepImmediate ==
    [][\A t \in Times :
          (/\ op = "generate_dynamic_beep_feedback"
           /\ handed > 0
           /\ calculate_beep_interval(results[handed].cents_offset) > 0
           /\ AudioSequencerUpdateBeeps(t))
              => out' = <<"BEEP">>]_vars

(***************************************************************************)
(* The main loop re-submitting its result: the same offset is analysed     *)
(* again and handed to generate_dynamic_beep_feedback on every analysis    *)
(* cycle, while audio_sequencer_update_beeps is polled every poll.period   *)
(* ms.                                                                     *)
(***************************************************************************)
NextResubmit ==
    \/ /\ poll.period = 0
       /\ latest = 0
       /\ \E d \in PollingFrequencies : CallerAnalyze(1, d, 5)
    \/ /\ latest # 0
       /\ CallerAnalyze(1, results[1].detected_frequency, 5)
    \/ /\ latest # 0
       /\ GenerateDynamicBeepFeedback(1)
    \/ \E p \in PollPeriods : StartPolling(p)
    \/ Poll

SpecResubmit == InitWith(Versions) /\ [][NextResubmit]_vars

(***************************************************************************)
(* C26.  While the cents offset stays at one out-of-tune value, two        *)
(* consecutive beeps are never less than the beep interval apart, however  *)
(* generate_dynamic_beep_feedback and audio_sequencer_update_beeps calls   *)
(* interleave.                                                             *)
(***************************************************************************)
C26_ResubmittingKeepsTheRate ==
    [][(Poll /\ out' = <<"BEEP">> /\ poll.last >= 0)
          => poll'.last - poll.last
                >= calculate_beep_interval(results[current_result].cents_offset)]_vars

(***************************************************************************)
(* The static sequencer and the dynamic beeper used by one main loop: both *)
(* kinds of feedback are requested for the caller's results, and both      *)
(* update functions are called.                                            *)
(***************************************************************************)
NextShared ==
    \/ \E slot \in Slots, d \in BeeperFrequencies : CallerAnalyze(slot, d, 0)
    \/ \E p \in DOMAIN results : GenerateAudioFeedback(p)
    \/ \E p \in {0} \cup DOMAIN results : GenerateDynamicBeepFeedback(p)
    \/ AudioSequencerUpdate
    \/ \E t \in Times : AudioSequencerUpdateBeeps(t)

SpecShared == InitWith(BeeperVersions) /\ [][NextShared]_vars

(***************************************************************************)
(* C27.  The static sequencer and the dynamic beeper do not interfere: a   *)
(* generate_dynamic_beep_feedback call made while a static sequence plays  *)
(* leaves the clips of the remaining steps as they were, and a             *)
(* generate_audio_feedback call made while the beeper is active leaves the *)
(* beep interval as it was.                                                *)
(***************************************************************************)
C27_SequencerAndBeeperIndependent ==
    [][/\ \A p \in {0} \cup DOMAIN results :
             (/\ is_playing = 1
              /\ current_result # 0
              /\ GenerateDynamicBeepFeedback(p))
                 => \A step \in playback_step..2 :
                        StepClips(results[current_result'], step)
                            = StepClips(results[current_result], step)
       /\ \A p \in DOMAIN results :
             (/\ beeping_active = 1
              /\ current_result # 0
              /\ GenerateAudioFeedback(p))
                 => calculate_beep_interval(results[current_result'].cents_offset)
                       = calculate_beep_interval(results[current_result].cents_offset)]_vars

(***************************************************************************)
(* The polling loop while millis() passes 2^32: the loop is entered at     *)
(* WrapStart, 1000 ms before the wrap, and poll.clock counts the ms since  *)
(* then.                                                                   *)
(***************************************************************************)
\* ms after WrapStart that a polling run is followed for
MaxWrapClock == 2500

\* 2^32 - 1000
WrapStart == [hi |-> 65535, lo |-> 64536]

\* one iteration of loop() when the loop was entered at millis() = start
PollFrom(start) ==
    /\ poll.period > 0
    /\ poll.count < MaxPollBeeps
    /\ poll.clock + poll.period <= MaxWrapClock
    /\ LET now == poll.clock + poll.period
       IN  /\ UpdateBeeps(U32Add(start, U32FromInt(now)))
           /\ poll' = IF out' # <<"BEEP">> THEN [poll EXCEPT !.clock = now]
                      ELSE IF poll.first < 0
                      THEN [poll EXCEPT !.clock = now, !.first = now, !.last = now]
                      ELSE [poll EXCEPT !.clock = now, !.last = now,
                                        !.count = poll.count + 1]

NextWrap ==
    \/ /\ poll.period = 0
       /\ latest = 0
       /\ \E d \in PollingFrequencies : CallerAnalyze(1, d, 5)
    \/ /\ poll.period = 0
       /\ latest # 0
       /\ handed < 0
       /\ GenerateDynamicBeepFeedback(1)
    \/ \E p \in PollPeriods : StartPolling(p)
    \/ PollFrom(WrapStart)

SpecWrap == InitWith(Versions) /\ [][NextWrap]_vars

(***************************************************************************)
(* C28.  The deadline test is right across the wrap of the 32-bit clock:   *)
(* after a first beep, a poll beeps exactly when at least the interval has *)
(* elapsed since the previous beep, so that no beep comes early and none   *)
(* later than the interval plus one polling period.                        *)
(***************************************************************************)
C28_DeadlineAcrossWrap ==
    [][(PollFrom(WrapStart) /\ poll.last >= 0)
          => LET elapsed == poll.clock + poll.period - poll.last
                 beep_interval ==
                     calculate_beep_interval(results[current_result].cents_offset)
             IN  out' = <<"BEEP">> <=> elapsed >= beep_interval]_vars

(***************************************************************************)
(* remove_dc_offset, the same in every shipped audio_processing.c.         *)
(***************************************************************************)
\* a / b as C divides: rounded towards zero, for b > 0
TruncatedQuotient(a, b) == IF a >= 0 THEN a \div b ELSE 0 - ((0 - a) \div b)

\* sum[i] is the long sum after i samples; "samples[i] -= dc_offset" is
\* computed in int and converted to int16_t, which keeps the low 16 bits
remove_dc_offset(samples, num_samples) ==
    LET sum[i \in 0..num_samples] ==
            IF i = 0 THEN 0 ELSE sum[i - 1] + samples[i]
        dc_offset == Wrap16(TruncatedQuotient(sum[num_samples], num_samples))
    IN  [i \in 1..num_samples |-> Wrap16(samples[i] - dc_offset)]

\* sample values: both ends of the int16_t range, small values of both
\* signs, and the offset of test_dc_offset_handling
DcSamples == {0 - 32768, 0 - 4, 0, 3, 5000, 32767}

\* blocks of one, two and three samples
DcBlocks ==
    {<<a>> : a \in DcSamples} \cup {<<a, b>> : a, b \in DcSamples}
        \cup {<<a, b, b>> : a, b \in DcSamples}

CallRemoveDcOffset(samples) ==
    PureCall("remove_dc_offset", <<samples, Len(samples)>>,
             remove_dc_offset(samples, Len(samples)))

NextDc == \E b \in DcBlocks : CallRemoveDcOffset(b)

SpecDc == InitWith({"src"}) /\ [][NextDc]_vars

(***************************************************************************)
(* C29.  For every block of at least one int16_t sample remove_dc_offset   *)
(* leaves each sample equal to its original value minus the truncated      *)
(* integer mean of the block, a value inside [-32768, 32767]: no sample    *)
(* wraps around.                                                           *)
(***************************************************************************)
C29_MeanSubtractedWithoutWrap ==
    call.fn = "remove_dc_offset" =>
        LET samples == call.args[1]
            n == call.args[2]
            total[i \in 0..n] == IF i = 0 THEN 0 ELSE total[i - 1] + samples[i]
            mean == IF total[n] >= 0 THEN total[n] \div n
                    ELSE 0 - ((0 - total[n]) \div n)
        IN  \A i \in 1..n :
                /\ call.ret[i] = samples[i] - mean
                /\ call.ret[i] >= 0 - 32768
                /\ call.ret[i] <= 32767

(***************************************************************************)
(* The button input of hardware_interface.c, polled by a main loop that    *)
(* calls button_get_event after every button_poll that returned 1 (and     *)
(* possibly at other times).                                               *)
(***************************************************************************)
\* button events that a run is followed for
MaxButtonEvents == 4

\* the pin levels of the operated buttons at one poll
PinLevels == [1..NumOperatedButtons -> {0, 1}]

ButtonPoll(raw) ==
    /\ ~(op = "button_poll" /\ button_log.any_change = 1)
    /\ hardware_interface.button_event_count < MaxButtonEvents
    /\ LET polled == button_poll(hardware_interface, raw)
       IN  /\ hardware_interface' = polled.statics
           /\ button_log' =
                 [button_log EXCEPT
                     !.any_change = IF polled.changes # << >> THEN 1 ELSE 0,
                     !.changed = button_log.changed \o polled.changes]
    /\ op' = "button_poll"
    /\ out' = << >>
    /\ UNCHANGED <<version, audio_processing, results, latest, sequencer, handed,
                   call, prev_call, poll>>

ButtonGetEvent ==
    /\ IF hardware_interface.pending_event_ready
       THEN /\ hardware_interface' =
                  [hardware_interface EXCEPT !.pending_event_ready = FALSE]
            /\ button_log' =
                  [button_log EXCEPT
                      !.event = <<hardware_interface.pending_event>>,
                      !.returned = Append(button_log.returned,
                                          hardware_interface.pending_event)]
       ELSE /\ UNCHANGED hardware_interface
            /\ button_log' = [button_log EXCEPT !.event = << >>]
    /\ op' = "button_get_event"
    /\ out' = << >>
    /\ UNCHANGED <<version, audio_processing, results, latest, sequencer, handed,
                   call, prev_call, poll>>

NextButtons ==
    \/ \E raw \in PinLevels : ButtonPoll(raw)
    \/ ButtonGetEvent

\* hardware_interface.c does not depend on string_detection.c
SpecButtons == InitWith({"src"}) /\ [][NextButtons]_vars

(***************************************************************************)
(* C30.  When button_get_event is called after every button_poll that      *)
(* returned 1, every debounced state change (every increment of            *)
(* button_event_count, also two buttons changing in one poll) is returned  *)
(* exactly once by button_get_event, with the id and state of the button   *)
(* that changed, and button_get_event returns NULL when nothing is         *)
(* undelivered: after each button_get_event call the events returned so    *)
(* far are the changes so far.                                             *)
(***************************************************************************)
C30_EveryChangeDeliveredOnce ==
    op = "button_get_event" =>
        /\ button_log.returned = button_log.changed
        /\ Len(button_log.returned) = hardware_interface.button_event_count

====
